---- MODULE Spec2Model ----
(***************************************************************************)
(* Model of the notebook rag_langchain_book_pdf.ipynb.                     *)
(*                                                                         *)
(* The notebook is a straight-line program: its code cells run top to      *)
(* bottom, every library call blocks, and nothing catches an exception, so *)
(* the first call that raises ends the run.  The two vector stores live    *)
(* outside the kernel (the Pinecone index in the cloud account, the        *)
(* ChromaDB collection in ./chroma_db) and keep their contents from one    *)
(* run of the notebook to the next.                                        *)
(*                                                                         *)
(* Spec      : the notebook run (setup, ingestion, comparison, cleanup).   *)
(* SpecChunk : RecursiveCharacterTextSplitter.split_text as a function of  *)
(*             (text, chunk_size, chunk_overlap).                          *)
(***************************************************************************)
EXTENDS Integers, Sequences, FiniteSets, TLC

VARIABLES
    pc,           \* position of the run: the statement about to execute
    qi,           \* index into `queries` of the loop at line 232
    run,          \* how many times the notebook has been started
    cleanups,     \* how many times the cleanup cell was executed again
    kernel,       \* names bound in the kernel that the cleanup cell reads
    book,         \* number of chunks book.pdf splits into
    docs,         \* len(docs) after line 84 (0 before)
    embedDim,     \* len(embeddings.embed_query(...)) of the loaded model
    pinecone,     \* the Pinecone index 'book-rag'
    chroma,       \* the ChromaDB collection 'book-rag'
    clock,        \* time.time()
    start_time,   \* start_time
    retrieved,    \* documents the retriever returned for that query
    passages,     \* page contents the 'stuff' chain put into the prompt
    results,      \* responses printed by the comparison loop in this run
    log,          \* calls issued to the two stores in this run
    err,          \* the exception that ended the run, if any
    text,         \* SpecChunk: the document text
    chunk_size,   \* SpecChunk: chunk_size
    chunk_overlap,\* SpecChunk: chunk_overlap
    chunks,       \* SpecChunk: the ranges of `text` that split_text returned
    split         \* SpecChunk: TRUE once split_text has run

pipeVars == <<pc, qi, run, cleanups, kernel, book, docs, embedDim, pinecone,
              chroma, clock, start_time, retrieved, passages, results,
              log, err>>
chunkVars == <<text, chunk_size, chunk_overlap, chunks, split>>
vars == <<pipeVars, chunkVars>>

---------------------------------------------------------------------------
(* Bounds of the model *)

MaxChunks == 2      \* book.pdf splits into at most this many chunks
MaxRuns == 2        \* the notebook is started at most this many times
MaxCleanups == 1    \* the cleanup cell is executed again at most this often
MaxLen == 5         \* SpecChunk: a text has at most this many characters
MaxChunkSize == 4   \* SpecChunk: chunk_size is at most this

---------------------------------------------------------------------------
(* Program constants *)

IndexName == "book-rag"
QueryCount == 3
CreateDimension == 384
CreateMetric == "cosine"
PineconeK == 3
ChromaK == 3

Queries == 1..QueryCount
Backends == {"pinecone", "chroma"}

\* Dimensions an embedding model or an index found in the account may have.
Dimensions == {384, 768}
Metrics == {"cosine", "euclidean"}

\* Clock ticks one run() call may take, and the similarity scores a store
\* may give a record.
Durations == {0, 1}
Scores == {0, 1, 2}

PineconeErrors == {"TransientNetworkError", "AuthenticationError"}
ChromaErrors == {"StorageError"}
LLMErrors == {"GenerationError"}

NoError == [step |-> "none", kind |-> "none"]
Raised(step, kind) == [step |-> step, kind |-> kind]

NoIndex == [exists |-> FALSE, dim |-> 0, metric |-> "none", recs |-> {}]
NoCollection == [exists |-> FALSE, dim |-> 0, recs |-> {}]

---------------------------------------------------------------------------
(* Helpers *)

Min(a, b) == IF a <= b THEN a ELSE b

\* One call issued to a store: which store, which operation, whether the
\* index/collection existed when the call was issued, how it ended, and how
\* many times the notebook attempted it.
Call(b, op, existed, out) ==
    [backend |-> b, op |-> op, existed |-> existed, out |-> out, attempts |-> 1]

\* A list_indexes() that still names an index that is gone.
ListIndexesStale == {IndexName}

\* pinecone.list_indexes()
ListIndexes == IF pinecone.exists THEN {IndexName} ELSE {}

\* from_documents passes no ids: the wrapper gives every text a fresh uuid.
\* The first n chunks become n records whose ids are new to the collection.
NewRecords(recs, n) ==
    {[id |-> Cardinality(recs) + c, chunk |-> c] : c \in 1..n}

\* The subtraction with its operands swapped.
ElapsedSwapped(now, start) == start - now

\* time.time() - start_time
Elapsed(now, start) == now - start

\* The record the store ranks first: highest similarity, oldest id on a tie.
Best(recs, rel) ==
    CHOOSE r \in recs : \A o \in recs :
        \/ rel[r.chunk] > rel[o.chunk]
        \/ rel[r.chunk] = rel[o.chunk] /\ r.id <= o.id

\* similarity_search(query, k): the k nearest records, nearest first.
RECURSIVE TopK(_, _, _)
TopK(recs, rel, k) ==
    IF k = 0 \/ recs = {} THEN <<>>
    ELSE LET b == Best(recs, rel)
         IN  <<[id |-> b.id, chunk |-> b.chunk, score |-> rel[b.chunk]]>>
             \o TopK(recs \ {b}, rel, k - 1)

\* chain_type='stuff': the page contents of the retrieved documents, in the
\* order the retriever returned them, form the prompt context.
Stuff(found) == [i \in 1..Len(found) |-> found[i].chunk]

---------------------------------------------------------------------------
(* Step 1, lines 83-84: RecursiveCharacterTextSplitter(chunk_size,          *)
(* chunk_overlap).split_documents.  The splitter is built with its          *)
(* defaults: separators "\n\n", "\n", " ", "", keep_separator=True (a       *)
(* separator stays at the head of the piece that follows it),               *)
(* length_function=len, strip_whitespace=True.  A text is a sequence of     *)
(* characters; a piece or a chunk is the range lo..hi of the text it spans. *)

NL == "\n"
SP == " "
Separators == << <<NL, NL>>, <<NL>>, <<SP>>, <<>> >>
Whitespace == {SP, NL}

Range(lo, hi) == [lo |-> lo, hi |-> hi]
RLen(r) == r.hi - r.lo + 1

\* re.search(separator, text[lo..hi]) at position p
OccursAt(txt, sep, p, hi) ==
    /\ p + Len(sep) - 1 <= hi
    /\ SubSeq(txt, p, p + Len(sep) - 1) = sep

\* Start positions of the matches re.split finds: leftmost first, and a match
\* never overlaps the one before it.
RECURSIVE Matches(_, _, _, _)
Matches(txt, sep, from, hi) ==
    IF from > hi THEN <<>>
    ELSE IF OccursAt(txt, sep, from, hi)
         THEN <<from>> \o Matches(txt, sep, from + Len(sep), hi)
         ELSE Matches(txt, sep, from + 1, hi)

\* _split_text_with_regex(text, separator, keep_separator=True): with the
\* empty separator, the characters; otherwise the text before the first
\* match, then each match together with the text that follows it; empty
\* pieces are dropped.
SplitWithRegex(txt, r, sep) ==
    IF sep = <<>>
    THEN [i \in 1..RLen(r) |-> Range(r.lo + i - 1, r.lo + i - 1)]
    ELSE LET m == Matches(txt, sep, r.lo, r.hi)
             starts == <<r.lo>> \o m
             piece(i) == Range(starts[i],
                               IF i < Len(starts) THEN starts[i + 1] - 1 ELSE r.hi)
             all == [i \in 1..Len(starts) |-> piece(i)]
         IN  SelectSeq(all, LAMBDA q : RLen(q) > 0)

\* text.strip(): the range without its leading and trailing whitespace
RECURSIVE StripLeft(_, _)
StripLeft(txt, r) ==
    IF r.lo <= r.hi /\ txt[r.lo] \in Whitespace
    THEN StripLeft(txt, Range(r.lo + 1, r.hi)) ELSE r

RECURSIVE StripRight(_, _)
StripRight(txt, r) ==
    IF r.lo <= r.hi /\ txt[r.hi] \in Whitespace
    THEN StripRight(txt, Range(r.lo, r.hi - 1)) ELSE r

\* _join_docs(docs, ""): consecutive pieces joined and stripped; <<>> stands
\* for None (nothing left after stripping), <<chunk>> for a chunk.
JoinDocs(txt, cur) ==
    IF cur = <<>> THEN <<>>
    ELSE LET r == StripRight(txt, StripLeft(txt, Range(cur[1].lo, cur[Len(cur)].hi)))
         IN  IF RLen(r) <= 0 THEN <<>> ELSE <<r>>

\* The length test off by one.
TooLongOffByOne(total, len, size) == total + len > size + 1

\* _merge_splits: total + _len + separator_len > chunk_size (separator_len=0)
TooLong(total, len, size) == total + len > size

\* _merge_splits: the while loop that drops pieces from the front of
\* current_doc until what stays fits in chunk_overlap and leaves room.
RECURSIVE PopFront(_, _, _, _, _)
PopFront(cur, total, len, size, overlap) ==
    IF total > overlap \/ (TooLong(total, len, size) /\ total > 0)
    THEN PopFront(Tail(cur), total - RLen(Head(cur)), len, size, overlap)
    ELSE [cur |-> cur, total |-> total]

\* _merge_splits(splits, ""): the loop over the pieces, from piece i on.
RECURSIVE MergeFrom(_, _, _, _, _, _, _, _)
MergeFrom(txt, pieces, i, cur, total, out, size, overlap) ==
    IF i > Len(pieces) THEN out \o JoinDocs(txt, cur)
    ELSE LET d == pieces[i]
             len == RLen(d)
         IN  IF TooLong(total, len, size) /\ Len(cur) > 0
             THEN LET kept == PopFront(cur, total, len, size, overlap)
                  IN  MergeFrom(txt, pieces, i + 1, Append(kept.cur, d),
                                kept.total + len, out \o JoinDocs(txt, cur),
                                size, overlap)
             ELSE MergeFrom(txt, pieces, i + 1, Append(cur, d), total + len,
                            out, size, overlap)

MergeSplits(txt, pieces, size, overlap) ==
    MergeFrom(txt, pieces, 1, <<>>, 0, <<>>, size, overlap)

\* _split_text: the index of the separator to use, the first one of seps
\* that is "" or occurs in the text (the last one if there is none).
RECURSIVE PickSeparator(_, _, _, _)
PickSeparator(txt, r, seps, i) ==
    IF i >= Len(seps) THEN Len(seps)
    ELSE IF seps[i] = <<>> \/ Matches(txt, seps[i], r.lo, r.hi) # <<>> THEN i
    ELSE PickSeparator(txt, r, seps, i + 1)

\* _split_text: a piece shorter than chunk_size is kept for merging
IsGoodSplit(len, size) == len < size

\* _split_text(text, separators): split on the separator picked, merge the
\* short pieces, and split a long piece again with the separators left.
RECURSIVE SplitText(_, _, _, _, _)
RECURSIVE SplitLoop(_, _, _, _, _, _, _, _)
SplitLoop(txt, pieces, i, good, final, rest, size, overlap) ==
    LET flush == IF good = <<>> THEN <<>>
                 ELSE MergeSplits(txt, good, size, overlap)
    IN  IF i > Len(pieces) THEN final \o flush
        ELSE IF IsGoodSplit(RLen(pieces[i]), size)
        THEN SplitLoop(txt, pieces, i + 1, Append(good, pieces[i]), final,
                       rest, size, overlap)
        ELSE SplitLoop(txt, pieces, i + 1, <<>>,
                       final \o flush \o
                         (IF rest = <<>> THEN <<pieces[i]>>
                          ELSE SplitText(txt, pieces[i], rest, size, overlap)),
                       rest, size, overlap)

SplitText(txt, r, seps, size, overlap) ==
    LET k == PickSeparator(txt, r, seps, 1)
        sep == seps[k]
        rest == IF sep = <<>> \/ Matches(txt, sep, r.lo, r.hi) = <<>>
                THEN <<>> ELSE SubSeq(seps, k + 1, Len(seps))
    IN  SplitLoop(txt, SplitWithRegex(txt, r, sep), 1, <<>>, <<>>, rest,
                  size, overlap)

\* split_text(text)
SplitDocument(txt, size, overlap) ==
    IF txt = <<>> THEN <<>>
    ELSE SplitText(txt, Range(1, Len(txt)), Separators, size, overlap)

\* page_content of a chunk
ChunkText(r) == SubSeq(text, r.lo, r.hi)

Chars == {"a", SP, NL}
Texts == UNION {[1..n -> Chars] : n \in 0..MaxLen}
ExampleText == <<"A","A","A","A"," ","B","B","B","B"," ",
                 "C","C","C","C"," ","D","D","D","D">>

\* docs = text_splitter.split_documents(documents)
SplitDocuments ==
    /\ ~split
    /\ chunks' = SplitDocument(text, chunk_size, chunk_overlap)
    /\ split' = TRUE
    /\ UNCHANGED <<text, chunk_size, chunk_overlap>>
    /\ UNCHANGED pipeVars

InitChunk ==
    /\ \/ /\ text \in Texts
          /\ chunk_size \in 1..MaxChunkSize
          /\ chunk_overlap \in 0..(chunk_size - 1)
       \/ /\ text = ExampleText
          /\ chunk_size = 9
          /\ chunk_overlap = 4
    /\ chunks = <<>>
    /\ split = FALSE
    /\ pc = "setup"
    /\ qi = 0
    /\ run = 1
    /\ cleanups = 0
    /\ kernel = {}
    /\ book = 0
    /\ docs = 0
    /\ embedDim = CreateDimension
    /\ pinecone = NoIndex
    /\ chroma = NoCollection
    /\ clock = 0
    /\ start_time = 0
    /\ retrieved = <<>>
    /\ passages = <<>>
    /\ results = <<>>
    /\ log = <<>>
    /\ err = NoError

NextChunk == SplitDocuments

SpecChunk == InitChunk /\ [][NextChunk]_vars

---------------------------------------------------------------------------
(* The notebook run *)

Halt(step, kind) ==
    /\ pc' = "halted"
    /\ err' = Raised(step, kind)

\* Setup cell: imports, credentials, pinecone.init.
Setup ==
    /\ pc = "setup"
    /\ pc' = "load"
    /\ UNCHANGED <<qi, run, cleanups, kernel, book, docs, embedDim, pinecone,
                   chroma, clock, start_time, retrieved, passages,
                   results, log, err>>
    /\ UNCHANGED chunkVars

\* Step 1: load book.pdf, split it, print docs[0].
LoadAndSplit ==
    /\ pc = "load"
    /\ docs' = book
    /\ IF book = 0
       THEN Halt("load", "IndexError")
       ELSE pc' = "embed_test" /\ err' = err
    /\ UNCHANGED <<qi, run, cleanups, kernel, book, embedDim, pinecone,
                   chroma, clock, start_time, retrieved, passages,
                   results, log>>
    /\ UNCHANGED chunkVars

\* Step 2: build the embedder and print the dimension of a test embedding.
EmbedTest ==
    /\ pc = "embed_test"
    /\ pc' = "pc_list"
    /\ UNCHANGED <<qi, run, cleanups, kernel, book, docs, embedDim, pinecone,
                   chroma, clock, start_time, retrieved, passages,
                   results, log, err>>
    /\ UNCHANGED chunkVars

\* Step 3, lines 132-133: index_name = ...; if index_name not in list_indexes()
PineconeListIndexes ==
    /\ pc = "pc_list"
    /\ kernel' = kernel \cup {"index_name"}
    /\ \E out \in {"ok"} \cup PineconeErrors :
        /\ log' = Append(log, Call("pinecone", "list", pinecone.exists, out))
        /\ IF out = "ok"
           THEN /\ pc' = IF IndexName \notin ListIndexes
                         THEN "pc_create" ELSE "pc_upsert"
                /\ err' = err
           ELSE Halt("pc_list", out)
    /\ UNCHANGED <<qi, run, cleanups, book, docs, embedDim, pinecone, chroma,
                   clock, start_time, retrieved, passages, results>>
    /\ UNCHANGED chunkVars

\* Step 3, line 134: pinecone.create_index(index_name, 384, 'cosine')
PineconeCreateIndex ==
    /\ pc = "pc_create"
    /\ \E out \in {"ok"} \cup PineconeErrors :
        /\ log' = Append(log, Call("pinecone", "create", pinecone.exists, out))
        /\ IF out = "ok"
           THEN /\ pinecone' = [exists |-> TRUE, dim |-> CreateDimension,
                                metric |-> CreateMetric, recs |-> {}]
                /\ pc' = "pc_upsert"
                /\ err' = err
           ELSE /\ Halt("pc_create", out)
                /\ pinecone' = pinecone
    /\ UNCHANGED <<qi, run, cleanups, kernel, book, docs, embedDim, chroma,
                   clock, start_time, retrieved, passages, results>>
    /\ UNCHANGED chunkVars

\* Step 3, lines 137-142: Pinecone.from_documents(docs, embeddings, index_name)
\* The vectors go up in batches; a batch that fails leaves the earlier ones.
PineconeFromDocuments ==
    /\ pc = "pc_upsert"
    /\ IF ~pinecone.exists
       THEN /\ log' = Append(log, Call("pinecone", "upsert", FALSE, "NotFoundError"))
            /\ Halt("pc_upsert", "NotFoundError")
            /\ pinecone' = pinecone
       ELSE IF pinecone.dim # embedDim
       THEN /\ log' = Append(log, Call("pinecone", "upsert", TRUE, "DimensionMismatch"))
            /\ Halt("pc_upsert", "DimensionMismatch")
            /\ pinecone' = pinecone
       ELSE \E out \in {"ok"} \cup PineconeErrors :
            /\ log' = Append(log, Call("pinecone", "upsert", TRUE, out))
            /\ IF out = "ok"
               THEN /\ pinecone' = [pinecone EXCEPT
                                      !.recs = @ \cup NewRecords(@, docs)]
                    /\ pc' = "ch_upsert"
                    /\ err' = err
               ELSE /\ \E done \in 0..(docs - 1) :
                         pinecone' = [pinecone EXCEPT
                                        !.recs = @ \cup NewRecords(@, done)]
                    /\ Halt("pc_upsert", out)
    /\ UNCHANGED <<qi, run, cleanups, kernel, book, docs, embedDim, chroma,
                   clock, start_time, retrieved, passages, results>>
    /\ UNCHANGED chunkVars

\* Step 4, lines 161-172: PersistentClient, then Chroma.from_documents, which
\* gets or creates the collection and adds the documents to it.
ChromaFromDocuments ==
    /\ pc = "ch_upsert"
    /\ kernel' = kernel \cup {"chroma_client"}
    /\ \E out \in {"ok"} \cup ChromaErrors :
        IF out # "ok"
        THEN \* the disk fails before or after the collection is created
             /\ \E created \in BOOLEAN :
                 /\ chroma' = IF created THEN [chroma EXCEPT !.exists = TRUE]
                              ELSE chroma
                 /\ log' = IF created
                           THEN log \o <<Call("chroma", "create", chroma.exists, "ok"),
                                         Call("chroma", "upsert", TRUE, out)>>
                           ELSE Append(log, Call("chroma", "create", chroma.exists, out))
             /\ Halt("ch_upsert", out)
        ELSE IF chroma.exists /\ chroma.recs # {} /\ chroma.dim # embedDim
        THEN /\ log' = log \o <<Call("chroma", "create", TRUE, "ok"),
                                Call("chroma", "upsert", TRUE, "DimensionMismatch")>>
             /\ chroma' = chroma
             /\ Halt("ch_upsert", "DimensionMismatch")
        ELSE /\ log' = log \o <<Call("chroma", "create", chroma.exists, "ok"),
                                Call("chroma", "upsert", TRUE, "ok")>>
             /\ chroma' = [exists |-> TRUE, dim |-> embedDim,
                           recs |-> chroma.recs \cup NewRecords(chroma.recs, docs)]
             /\ pc' = "qa_setup"
             /\ err' = err
    /\ UNCHANGED <<qi, run, cleanups, book, docs, embedDim, pinecone, clock,
                   start_time, retrieved, passages, results>>
    /\ UNCHANGED chunkVars

\* Step 5: the LLM and the two RetrievalQA chains; then `queries` and the
\* first iteration of the loop.
SetupChains ==
    /\ pc = "qa_setup"
    /\ pc' = "q_pinecone"
    /\ qi' = 1
    /\ UNCHANGED <<run, cleanups, kernel, book, docs, embedDim, pinecone,
                   chroma, clock, start_time, retrieved, passages,
                   results, log, err>>
    /\ UNCHANGED chunkVars

\* Step 6, lines 236-237: start the timer and call pinecone_qa.run(query),
\* whose first half embeds the query and asks the index for the k nearest
\* records; the 'stuff' chain then builds the prompt from them.
PineconeRetrieve ==
    /\ pc = "q_pinecone"
    /\ start_time' = clock
    /\ \E out \in {"ok"} \cup PineconeErrors :
        /\ log' = Append(log, Call("pinecone", "query", pinecone.exists, out))
        /\ IF out = "ok"
           THEN /\ \E rel \in [1..MaxChunks -> Scores] :
                     retrieved' = TopK(pinecone.recs, rel, PineconeK)
                /\ passages' = Stuff(retrieved')
                /\ pc' = "a_pinecone"
                /\ err' = err
           ELSE /\ Halt("q_pinecone", out)
                /\ UNCHANGED <<retrieved, passages>>
    /\ UNCHANGED <<qi, run, cleanups, kernel, book, docs, embedDim, pinecone,
                   chroma, clock, results>>
    /\ UNCHANGED chunkVars

\* Step 6, lines 237-240: the LLM answers from the prompt, run() returns,
\* and the elapsed time and the answer are printed.
PineconeAnswer ==
    /\ pc = "a_pinecone"
    /\ \E d \in Durations : clock' = clock + d
    /\ retrieved' = <<>>
    /\ passages' = <<>>
    /\ \E out \in {"ok"} \cup LLMErrors :
        IF out = "ok"
        THEN /\ results' = Append(results,
                    [query |-> qi, backend |-> "pinecone",
                     answer |-> "pinecone_qa",
                     latency |-> Elapsed(clock', start_time)])
             /\ pc' = "q_chroma"
             /\ err' = err
        ELSE /\ Halt("a_pinecone", out)
             /\ results' = results
    /\ UNCHANGED <<qi, run, cleanups, kernel, book, docs, embedDim, pinecone,
                   chroma, start_time, log>>
    /\ UNCHANGED chunkVars

\* The ChromaDB half of the iteration without line 243: the timer still holds
\* the reading taken before pinecone_qa.run.
ChromaRetrieveStaleTimer ==
    /\ pc = "q_chroma"
    /\ start_time' = start_time
    /\ \E out \in {"ok"} \cup ChromaErrors :
        /\ log' = Append(log, Call("chroma", "query", chroma.exists, out))
        /\ IF out = "ok"
           THEN /\ \E rel \in [1..MaxChunks -> Scores] :
                     retrieved' = TopK(chroma.recs, rel, ChromaK)
                /\ passages' = Stuff(retrieved')
                /\ pc' = "a_chroma"
                /\ err' = err
           ELSE /\ Halt("q_chroma", out)
                /\ UNCHANGED <<retrieved, passages>>
    /\ UNCHANGED <<qi, run, cleanups, kernel, book, docs, embedDim, pinecone,
                   chroma, clock, results>>
    /\ UNCHANGED chunkVars

\* Step 6, lines 243-244: restart the timer and call chroma_qa.run(query);
\* retrieval from the local collection.
ChromaRetrieve ==
    /\ pc = "q_chroma"
    /\ start_time' = clock
    /\ \E out \in {"ok"} \cup ChromaErrors :
        /\ log' = Append(log, Call("chroma", "query", chroma.exists, out))
        /\ IF out = "ok"
           THEN /\ \E rel \in [1..MaxChunks -> Scores] :
                     retrieved' = TopK(chroma.recs, rel, ChromaK)
                /\ passages' = Stuff(retrieved')
                /\ pc' = "a_chroma"
                /\ err' = err
           ELSE /\ Halt("q_chroma", out)
                /\ UNCHANGED <<retrieved, passages>>
    /\ UNCHANGED <<qi, run, cleanups, kernel, book, docs, embedDim, pinecone,
                   chroma, clock, results>>
    /\ UNCHANGED chunkVars

\* Step 6, lines 244-247: the LLM answers, the elapsed time and the answer
\* are printed, and the loop goes on to the next query, or the run goes on to
\* the cleanup cell after the last one.
ChromaAnswer ==
    /\ pc = "a_chroma"
    /\ \E d \in Durations : clock' = clock + d
    /\ retrieved' = <<>>
    /\ passages' = <<>>
    /\ \E out \in {"ok"} \cup LLMErrors :
        IF out = "ok"
        THEN /\ results' = Append(results,
                    [query |-> qi, backend |-> "chroma",
                     answer |-> "chroma_qa",
                     latency |-> Elapsed(clock', start_time)])
             /\ IF qi < QueryCount
                THEN pc' = "q_pinecone" /\ qi' = qi + 1
                ELSE pc' = "cl_list" /\ qi' = qi
             /\ err' = err
        ELSE /\ Halt("a_chroma", out)
             /\ UNCHANGED <<qi, results>>
    /\ UNCHANGED <<run, cleanups, kernel, book, docs, embedDim, pinecone,
                   chroma, start_time, log>>
    /\ UNCHANGED chunkVars

\* Cleanup, line 299: if index_name in pinecone.list_indexes()
CleanupListIndexes ==
    /\ pc = "cl_list"
    /\ \E out \in {"ok"} \cup PineconeErrors :
        /\ log' = Append(log, Call("pinecone", "list", pinecone.exists, out))
        /\ IF out = "ok"
           THEN /\ pc' = IF IndexName \in ListIndexes
                         THEN "cl_delete" ELSE "cl_chroma"
                /\ err' = err
           ELSE Halt("cl_list", out)
    /\ UNCHANGED <<qi, run, cleanups, kernel, book, docs, embedDim, pinecone,
                   chroma, clock, start_time, retrieved, passages,
                   results>>
    /\ UNCHANGED chunkVars

\* Cleanup, lines 300-301: pinecone.delete_index(index_name)
CleanupDeleteIndex ==
    /\ pc = "cl_delete"
    /\ \E out \in {"ok"} \cup PineconeErrors :
        /\ log' = Append(log, Call("pinecone", "delete", pinecone.exists, out))
        /\ IF out = "ok"
           THEN /\ pinecone' = NoIndex
                /\ pc' = "cl_chroma"
                /\ err' = err
           ELSE /\ Halt("cl_delete", out)
                /\ pinecone' = pinecone
    /\ UNCHANGED <<qi, run, cleanups, kernel, book, docs, embedDim, chroma,
                   clock, start_time, retrieved, passages, results>>
    /\ UNCHANGED chunkVars

\* Cleanup, lines 304-305: chroma_client.delete_collection('book-rag'),
\* which raises when there is no collection of that name.
CleanupChroma ==
    /\ pc = "cl_chroma"
    /\ IF ~chroma.exists
       THEN /\ log' = Append(log, Call("chroma", "delete", FALSE, "NotFoundError"))
            /\ Halt("cl_chroma", "NotFoundError")
            /\ chroma' = chroma
       ELSE \E out \in {"ok"} \cup ChromaErrors :
            /\ log' = Append(log, Call("chroma", "delete", TRUE, out))
            /\ IF out = "ok"
               THEN /\ chroma' = NoCollection
                    /\ pc' = "done"
                    /\ err' = err
               ELSE /\ Halt("cl_chroma", out)
                    /\ chroma' = chroma
    /\ UNCHANGED <<qi, run, cleanups, kernel, book, docs, embedDim, pinecone,
                   clock, start_time, retrieved, passages, results>>
    /\ UNCHANGED chunkVars

\* The notebook is run again from the top in a fresh kernel.  The stores
\* keep what the earlier run left in them.
RerunNotebook ==
    /\ pc \in {"done", "halted"}
    /\ run < MaxRuns
    /\ run' = run + 1
    /\ pc' = "setup"
    /\ qi' = 0
    /\ cleanups' = 0
    /\ kernel' = {}
    /\ docs' = 0
    /\ clock' = 0
    /\ start_time' = 0
    /\ retrieved' = <<>>
    /\ passages' = <<>>
    /\ results' = <<>>
    /\ log' = <<>>
    /\ err' = NoError
    /\ UNCHANGED <<book, embedDim, pinecone, chroma>>
    /\ UNCHANGED chunkVars

\* The cleanup cell is executed again in the same kernel, which is possible
\* once the names it reads (index_name, chroma_client) are bound.
RerunCleanup ==
    /\ pc \in {"done", "halted"}
    /\ {"index_name", "chroma_client"} \subseteq kernel
    /\ cleanups < MaxCleanups
    /\ cleanups' = cleanups + 1
    /\ pc' = "cl_list"
    /\ err' = NoError
    /\ UNCHANGED <<qi, run, kernel, book, docs, embedDim, pinecone, chroma,
                   clock, start_time, retrieved, passages, results,
                   log>>
    /\ UNCHANGED chunkVars

Init ==
    /\ pc = "setup"
    /\ qi = 0
    /\ run = 1
    /\ cleanups = 0
    /\ kernel = {}
    /\ book \in 0..MaxChunks
    /\ docs = 0
    /\ embedDim \in Dimensions
    /\ pinecone \in {NoIndex} \cup
           {[exists |-> TRUE, dim |-> d, metric |-> m, recs |-> {}] :
               d \in Dimensions, m \in Metrics}
    /\ chroma = NoCollection
    /\ clock = 0
    /\ start_time = 0
    /\ retrieved = <<>>
    /\ passages = <<>>
    /\ results = <<>>
    /\ log = <<>>
    /\ err = NoError
    /\ text = <<>>
    /\ chunk_size = 1
    /\ chunk_overlap = 0
    /\ chunks = <<>>
    /\ split = FALSE

Next ==
    \/ Setup
    \/ LoadAndSplit
    \/ EmbedTest
    \/ PineconeListIndexes
    \/ PineconeCreateIndex
    \/ PineconeFromDocuments
    \/ ChromaFromDocuments
    \/ SetupChains
    \/ PineconeRetrieve
    \/ PineconeAnswer
    \/ ChromaRetrieve
    \/ ChromaAnswer
    \/ CleanupListIndexes
    \/ CleanupDeleteIndex
    \/ CleanupChroma
    \/ RerunNotebook
    \/ RerunCleanup

Spec == Init /\ [][Next]_vars

---------------------------------------------------------------------------
(* Properties *)

QuerySteps == {"q_pinecone", "a_pinecone", "q_chroma", "a_chroma"}
CleanupSteps == {"cl_list", "cl_delete", "cl_chroma"}
BackendOf(step) == IF step \in {"q_pinecone", "a_pinecone"} THEN "pinecone" ELSE "chroma"
Printed(q, b) == \E i \in 1..Len(results) : results[i].query = q /\ results[i].backend = b

\* C1: when the query/answer step of one (backend, query) pair fails, every
\* other pair of the comparison run still gets its answer and latency: the
\* other backend's for the same query, and both backends' for the remaining
\* queries.
C1_FailureHaltsOnlyItsPair ==
    (pc = "halted" /\ err.step \in QuerySteps) =>
        \A q \in Queries, b \in Backends :
            <<q, b>> # <<qi, BackendOf(err.step)>> => Printed(q, b)

\* C2: the cleanup step does not raise when the Pinecone index or the
\* ChromaDB collection 'book-rag' is already absent.
C2_CleanupIdempotent ==
    ~(pc = "halted" /\ err.step \in CleanupSteps /\ err.kind = "NotFoundError")

\* The lifecycle calls of this run issued to backend b, in order.
LifecycleCalls(b) ==
    SelectSeq(log, LAMBDA c : c.backend = b /\ c.op # "list")

\* C3: for each backend the calls of a run follow the lifecycle: no upsert
\* or query is issued while the collection does not exist, no query is issued
\* before an upsert has succeeded, and once delete has succeeded no create,
\* upsert or query is issued any more.
C3_Lifecycle ==
    \A b \in Backends :
        LET ops == LifecycleCalls(b)
        IN  \A i \in 1..Len(ops) :
              /\ ops[i].op \in {"upsert", "query"} => ops[i].existed
              /\ ops[i].op = "query" =>
                    \E j \in 1..(i - 1) : ops[j].op = "upsert" /\ ops[j].out = "ok"
              /\ ops[i].op \in {"create", "upsert", "query"} =>
                    \A j \in 1..(i - 1) : ~(ops[j].op = "delete" /\ ops[j].out = "ok")

\* A run that went through the whole lifecycle on both backends: created or
\* found, populated, queried and deleted.
C3_Witness ==
    /\ pc = "done"
    /\ \A b \in Backends :
         LET ops == LifecycleCalls(b)
         IN  /\ \E i \in 1..Len(ops) : ops[i].op = "upsert" /\ ops[i].out = "ok"
             /\ \E i \in 1..Len(ops) : ops[i].op = "query" /\ ops[i].out = "ok"
             /\ ops[Len(ops)].op = "delete" /\ ops[Len(ops)].out = "ok"

OnePerChunk(recs) ==
    /\ Cardinality(recs) = docs
    /\ \A r1, r2 \in recs : r1.chunk = r2.chunk => r1 = r2

\* C4: whenever ingestion has completed, in a first run or in a later one,
\* each backend's collection holds exactly one record per chunk of the
\* document.
C4_ReingestionIdempotent ==
    pc = "qa_setup" => OnePerChunk(pinecone.recs) /\ OnePerChunk(chroma.recs)

SchemaMatches ==
    pinecone.dim = CreateDimension /\ pinecone.metric = CreateMetric

\* C5: when an index 'book-rag' exists with another dimension or metric than
\* (384, cosine), the creation step fails with SchemaConflictError and
\* nothing is upserted into it; when it exists with that schema, no index is
\* created.
C5_SchemaConflictRejected ==
    /\ (pinecone.exists /\ ~SchemaMatches) =>
          /\ pinecone.recs = {}
          /\ pc \notin {"setup", "load", "embed_test", "pc_list"} =>
                pc = "halted" /\ err.kind \in {"SchemaConflictError", "IndexError"}
    /\ pc = "pc_create" => ~pinecone.exists

LifecycleOps == {"create", "upsert", "query"}

LoopFinished ==
    /\ cleanups = 0
    /\ \/ pc \in CleanupSteps \cup {"done"}
       \/ pc = "halted" /\ err.step \in CleanupSteps

ChainOf(b) == IF b = "pinecone" THEN "pinecone_qa" ELSE "chroma_qa"

C8_TransientRetried ==
    \A i \in 1..Len(log) :
        log[i].backend = "pinecone" =>
            /\ log[i].out = "TransientNetworkError" =>
                  log[i].attempts > 1 /\ log[i].attempts <= 3
            /\ log[i].out = "AuthenticationError" => log[i].attempts = 1

\* The collection the chain that is about to answer has retrieved from.
Searched == IF pc = "a_pinecone" THEN pinecone.recs ELSE chroma.recs

\* C9: for each backend and query the retriever returns min(3, size of the
\* collection) documents, no chunk twice, by non-increasing relevance, and
\* the prompt holds exactly their contents in that order.
C9_TopThree ==
    pc \in {"a_pinecone", "a_chroma"} =>
        /\ Len(retrieved) = Min(3, Cardinality(Searched))
        /\ \A i, j \in 1..Len(retrieved) :
              i # j => /\ retrieved[i].id # retrieved[j].id
                       /\ retrieved[i].chunk # retrieved[j].chunk
        /\ \A i \in 1..(Len(retrieved) - 1) :
              retrieved[i].score >= retrieved[i + 1].score
        /\ Len(passages) = Len(retrieved)
        /\ \A i \in 1..Len(retrieved) : passages[i] = retrieved[i].chunk

\* Characters of the document that chunk i and chunk i + 1 both contain.
OverlapOf(i) ==
    IF chunks[i].hi >= chunks[i + 1].lo
    THEN chunks[i].hi - chunks[i + 1].lo + 1 ELSE 0

ChunkTexts == [i \in 1..Len(chunks) |-> ChunkText(chunks[i])]
IsExample == text = ExampleText /\ chunk_size = 9 /\ chunk_overlap = 4

SizesHold ==
    \A i \in 1..Len(chunks) :
        0 < Len(ChunkText(chunks[i])) /\ Len(ChunkText(chunks[i])) <= chunk_size

PrintedInLoopOrder ==
    \A i \in 1..Len(results) :
        /\ results[i].query = (i + 1) \div 2
        /\ results[i].backend = IF i % 2 = 1 THEN "pinecone" ELSE "chroma"

\* While a run call of the loop is pending or in progress, every run call
\* the loop made before it has returned and been printed, and no later one
\* has: the Pinecone call of query qi follows the 2 * (qi - 1) calls of the
\* earlier queries, the ChromaDB call follows the Pinecone call as well.
OneCallAtATime ==
    /\ pc \in {"q_pinecone", "a_pinecone"} => Len(results) = 2 * (qi - 1)
    /\ pc \in {"q_chroma", "a_chroma"} => Len(results) = 2 * (qi - 1) + 1

\* A response is printed only by the step in which its own run call returns
\* without raising, and its latency is the time that call alone took: the
\* clock at its return minus the clock at its start.
PrintsOwnCall ==
    Len(results') > Len(results) =>
        /\ pc \in {"a_pinecone", "a_chroma"}
        /\ pc' # "halted"
        /\ results' = Append(results,
              [query |-> qi, backend |-> BackendOf(pc),
               answer |-> ChainOf(BackendOf(pc)),
               latency |-> clock' - clock])

\* C11: in the comparison loop the two backends are exercised one after the
\* other and never at once: queries are taken in list order, for each query
\* the Pinecone run call returns before the ChromaDB run call starts, the
\* timer is restarted between them so that each latency spans exactly its own
\* run call, and an answer is printed only after its own run call returned
\* successfully.
C11_SequentialRuns ==
    /\ [](PrintedInLoopOrder /\ OneCallAtATime)
    /\ [][PrintsOwnCall]_vars

\* Both backends answered the first query and the Pinecone call took
\* measurable time, so that the reading the timer is restarted with differs
\* from the one before the Pinecone call.
C11_Witness ==
    /\ Len(results) >= 2
    /\ results[1].latency > 0
    /\ results[2].backend = "chroma"

====
